---- MODULE Spec2Model ----
(***************************************************************************)
(* A model of asim.c: a pump drives water through a pipe into a tank; a    *)
(* fixed-step loop integrates the tank level and prints one line per tick. *)
(*                                                                         *)
(* Every quantity of the program is a C double.  The model keeps IEEE 754  *)
(* binary64 arithmetic (53-bit significand, round to nearest, ties to      *)
(* even, subnormals, overflow to infinity, NaN).  The inputs the program is*)
(* specified for are non-negative, and +, * and / of non-negative doubles  *)
(* are non-negative, so a double is modelled without a sign bit.           *)
(*                                                                         *)
(* TLC's integers are 32 bits wide, so a significand is a natural number   *)
(* held as a little-endian sequence of base-2^15 limbs (no leading zero    *)
(* limb; zero is the empty sequence).                                      *)
(***************************************************************************)
EXTENDS Integers, Sequences, FiniteSets, TLC

---------------------------------------------------------------------------
(* Natural numbers of arbitrary size.                                      *)

Base == 2^15

Max(x, y) == IF x >= y THEN x ELSE y
Min(x, y) == IF x <= y THEN x ELSE y

RECURSIVE BitLenSmall(_)
BitLenSmall(n) == IF n = 0 THEN 0 ELSE 1 + BitLenSmall(n \div 2)

RECURSIVE BNat(_)
BNat(n) == IF n = 0 THEN <<>> ELSE <<n % Base>> \o BNat(n \div Base)

RECURSIVE BTrim(_)
BTrim(a) ==
  IF a = <<>> THEN a
  ELSE IF a[Len(a)] = 0 THEN BTrim(SubSeq(a, 1, Len(a) - 1)) ELSE a

Limb(a, i) == IF i >= 1 /\ i <= Len(a) THEN a[i] ELSE 0

RECURSIVE BAddC(_, _, _, _)
BAddC(a, b, i, c) ==
  IF i > Len(a) /\ i > Len(b)
  THEN (IF c = 0 THEN <<>> ELSE <<c>>)
  ELSE LET s == Limb(a, i) + Limb(b, i) + c
       IN  <<s % Base>> \o BAddC(a, b, i + 1, s \div Base)

BAdd(a, b) == BAddC(a, b, 1, 0)

\* a - b for a >= b
RECURSIVE BSubC(_, _, _, _)
BSubC(a, b, i, c) ==
  IF i > Len(a) THEN <<>>
  ELSE LET s == Limb(a, i) - Limb(b, i) - c
       IN  IF s < 0 THEN <<s + Base>> \o BSubC(a, b, i + 1, 1)
                    ELSE <<s>> \o BSubC(a, b, i + 1, 0)

BSub(a, b) == BTrim(BSubC(a, b, 1, 0))

\* -1, 0, 1 as a < b, a = b, a > b
RECURSIVE BCmpAt(_, _, _)
BCmpAt(a, b, i) ==
  IF i = 0 THEN 0
  ELSE IF a[i] < b[i] THEN -1
  ELSE IF a[i] > b[i] THEN 1
  ELSE BCmpAt(a, b, i - 1)

BCmp(a, b) ==
  IF Len(a) < Len(b) THEN -1
  ELSE IF Len(a) > Len(b) THEN 1
  ELSE BCmpAt(a, b, Len(a))

\* a * d + c for one limb d
RECURSIVE BMulLimbC(_, _, _, _)
BMulLimbC(a, d, i, c) ==
  IF i > Len(a)
  THEN (IF c = 0 THEN <<>> ELSE <<c>>)
  ELSE LET s == a[i] * d + c
       IN  <<s % Base>> \o BMulLimbC(a, d, i + 1, s \div Base)

BMulLimb(a, d) == IF d = 0 THEN <<>> ELSE BMulLimbC(a, d, 1, 0)

Zeros(n) == [i \in 1..n |-> 0]

\* a * Base^n
BShlLimbs(a, n) == IF a = <<>> THEN a ELSE Zeros(n) \o a

RECURSIVE BMulAt(_, _, _)
BMulAt(a, b, i) ==
  IF i > Len(b) THEN <<>>
  ELSE BAdd(BShlLimbs(BMulLimb(a, b[i]), i - 1), BMulAt(a, b, i + 1))

BMul(a, b) == BMulAt(a, b, 1)

\* a * 2^n
BShl(a, n) == BShlLimbs(BMulLimb(a, 2^(n % 15)), n \div 15)

\* floor(a / 2^n)
BShrBits(d, r) ==
  BTrim([i \in 1..Len(d) |->
           (d[i] \div 2^r) + (Limb(d, i + 1) % 2^r) * 2^(15 - r)])

BShr(a, n) ==
  IF n \div 15 >= Len(a) THEN <<>>
  ELSE BShrBits(SubSeq(a, n \div 15 + 1, Len(a)), n % 15)

BBitLen(a) ==
  IF a = <<>> THEN 0 ELSE 15 * (Len(a) - 1) + BitLenSmall(a[Len(a)])

\* bit i of a, bit 0 the least significant
BBit(a, i) == (Limb(a, i \div 15 + 1) \div 2^(i % 15)) % 2

\* whether any of the low n bits of a is set
BLowNonZero(a, n) ==
  \/ \E j \in 1..Min(n \div 15, Len(a)) : a[j] # 0
  \/ Limb(a, n \div 15 + 1) % 2^(n % 15) # 0

(* Long division, one quotient limb per step.  b is normalised (its top   *)
(* limb has its top bit set), r < b, and the next limb of a is brought     *)
(* down; the quotient limb estimated from the top limbs is at most two too *)
(* large and is corrected by comparison.                                   *)
RECURSIVE BFixDigit(_, _, _, _)
BFixDigit(r, b, d, p) ==
  IF BCmp(p, r) > 0 THEN BFixDigit(r, b, d - 1, BSub(p, b))
  ELSE [d |-> d, r |-> BSub(r, p)]

BDivEstimate(r, b, n) ==
  Min(Base - 1, (Limb(r, n + 1) * Base + Limb(r, n)) \div b[n])

BDivTry(r, b, est) == BFixDigit(r, b, est, BMulLimb(b, est))

BDivDigit(r, b) == BDivTry(r, b, BDivEstimate(r, b, Len(b)))

\* st = [i |-> limbs of a left, q |-> quotient so far, r |-> remainder so far]
BDivStep(st, s) == [i |-> st.i - 1, q |-> <<s.d>> \o st.q, r |-> s.r]

RECURSIVE BDivAt(_, _, _)
BDivAt(a, b, st) ==
  IF st.i = 0 THEN st
  ELSE BDivAt(a, b, BDivStep(st, BDivDigit(BTrim(<<a[st.i]>> \o st.r), b)))

BDivStart(a, b) == BDivAt(a, b, [i |-> Len(a), q |-> <<>>, r |-> <<>>])

\* the quotient floor(a / b) and whether the division is exact, for b > 0
BDivOut(st) == [q |-> BTrim(st.q), exact |-> st.r = <<>>]

BDivNorm(a, b, s) == BDivOut(BDivStart(BShl(a, s), BShl(b, s)))

BDivMod(a, b) == BDivNorm(a, b, 15 - BitLenSmall(b[Len(b)]))

\* 10^n for n <= 9
BPow10(n) == BNat(10 ^ n)

---------------------------------------------------------------------------
(* IEEE 754 binary64, non-negative values.  A finite double is m * 2^e     *)
(* with m of exactly MantDig bits (a normal number), or e = EMin and m     *)
(* shorter (a subnormal), or m zero and e = 0.  The form is canonical, so  *)
(* = on the records is == on the doubles (NaN aside).                      *)

MantDig == 53
EMin == -1074
EMax == 971

Zero == [c |-> "fin", m |-> <<>>, e |-> 0]
Inf  == [c |-> "inf", m |-> <<>>, e |-> 0]
NaN  == [c |-> "nan", m |-> <<>>, e |-> 0]

IsNaN(x)    == x.c = "nan"
IsInf(x)    == x.c = "inf"
IsFinite(x) == x.c = "fin"
IsZero(x)   == x.c = "fin" /\ x.m = <<>>

Pack(m, e) ==
  IF m = <<>> THEN Zero
  ELSE IF e > EMax THEN Inf
  ELSE [c |-> "fin", m |-> m, e |-> e]

\* q * 2^e for q of at most MantDig + 1 bits
Renorm(q, e) ==
  IF BBitLen(q) > MantDig THEN Pack(BShr(q, 1), e + 1) ELSE Pack(q, e)

\* q * 2^e rounded, given the bit below q (half) and whether anything is set
\* below that (rest): round to nearest, ties to even
RoundIncr(q, e, half, rest) ==
  Renorm(IF half /\ (rest \/ BBit(q, 0) = 1) THEN BAdd(q, <<1>>) ELSE q, e)

\* m * 2^e shifted left by l bits: the canonical form of an exact value
Exact(m, e, l) == Pack(BShl(m, l), e - l)

\* m * 2^e with the low sh bits of m rounded away
RoundAt(m, e, sh, sticky) ==
  IF sh <= 0
  THEN Exact(m, e, Min(MantDig - BBitLen(m), e - EMin))
  ELSE RoundIncr(BShr(m, sh), e + sh, BBit(m, sh - 1) = 1,
                 sticky \/ BLowNonZero(m, sh - 1))

(* The double nearest to m * 2^e (plus, when sticky, a positive amount     *)
(* below one unit of m; m then has at least MantDig + 2 bits), ties to     *)
(* even.  Below the normal range the spacing is 2^EMin.                    *)
RoundPack(m, e, sticky) ==
  IF m = <<>> THEN Zero
  ELSE RoundAt(m, e, Max(BBitLen(m) - MantDig, EMin - e), sticky)

DivRoundOut(qr, e) == RoundPack(qr.q, e, ~qr.exact)

DivRoundAt(na, nb, e, s) == DivRoundOut(BDivMod(BShl(na, s), nb), e - s)

\* the double nearest to (na / nb) * 2^e, for naturals na > 0, nb > 0
DivRound(na, nb, e) ==
  DivRoundAt(na, nb, e, Max(0, MantDig + 2 + BBitLen(nb) - BBitLen(na)))

\* a + b for finite non-zero a, b with a.e >= b.e
AddAligned(a, b) ==
  IF a.e - b.e > MantDig + 3
  THEN RoundPack(BShl(a.m, 2), a.e - 2, TRUE)
  ELSE RoundPack(BAdd(BShl(a.m, a.e - b.e), b.m), b.e, FALSE)

\* x + y
fadd(x, y) ==
  IF IsNaN(x) \/ IsNaN(y) THEN NaN
  ELSE IF IsInf(x) \/ IsInf(y) THEN Inf
  ELSE IF IsZero(x) THEN y
  ELSE IF IsZero(y) THEN x
  ELSE IF x.e >= y.e THEN AddAligned(x, y) ELSE AddAligned(y, x)

\* x * y
fmul(x, y) ==
  IF IsNaN(x) \/ IsNaN(y) THEN NaN
  ELSE IF (IsInf(x) /\ IsZero(y)) \/ (IsZero(x) /\ IsInf(y)) THEN NaN
  ELSE IF IsInf(x) \/ IsInf(y) THEN Inf
  ELSE IF IsZero(x) \/ IsZero(y) THEN Zero
  ELSE RoundPack(BMul(x.m, y.m), x.e + y.e, FALSE)

\* x / y
fdiv(x, y) ==
  IF IsNaN(x) \/ IsNaN(y) THEN NaN
  ELSE IF (IsInf(x) /\ IsInf(y)) \/ (IsZero(x) /\ IsZero(y)) THEN NaN
  ELSE IF IsInf(x) \/ IsZero(y) THEN Inf
  ELSE IF IsZero(x) \/ IsInf(y) THEN Zero
  ELSE DivRound(x.m, y.m, x.e - y.e)

\* x < y  (false when either is NaN)
flt(x, y) ==
  IF IsNaN(x) \/ IsNaN(y) THEN FALSE
  ELSE IF IsInf(x) THEN FALSE
  ELSE IF IsInf(y) THEN TRUE
  ELSE IF IsZero(y) THEN FALSE
  ELSE IF IsZero(x) THEN TRUE
  ELSE x.e < y.e \/ (x.e = y.e /\ BCmp(x.m, y.m) < 0)

\* x > y, x <= y, x >= y as C evaluates them
fgt(x, y) == flt(y, x)
fle(x, y) == ~IsNaN(x) /\ ~IsNaN(y) /\ ~flt(y, x)
fge(x, y) == fle(y, x)

\* the double a decimal literal num/den denotes (num, den small naturals)
Lit(num, den) ==
  IF num = 0 THEN Zero ELSE DivRound(BNat(num), BNat(den), 0)

\* hi * 10^14 + mid * 10^7 + lo
BJoin(hi, mid, lo, e7) ==
  BAdd(BMul(BAdd(BMul(BNat(hi), e7), BNat(mid)), e7), BNat(lo))

\* the double the decimal literal denotes whose digits, point removed, are
\* those of hi, mid and lo (seven digits each) and whose fraction has p digits
LitLong(hi, mid, lo, p) ==
  DivRound(BJoin(hi, mid, lo, BPow10(7)),
           BMul(BMul(BPow10(7), BPow10(7)), BPow10(p - 14)), 0)

\* n / 2^sh rounded to the nearest integer, ties to even
RoundInt(n, sh, q) ==
  IF BBit(n, sh - 1) = 1 /\ (BLowNonZero(n, sh - 1) \/ BBit(q, 0) = 1)
  THEN BAdd(q, <<1>>) ELSE q

FmtScaled(n, e) ==
  IF e >= 0 THEN BShl(n, e) ELSE RoundInt(n, 0 - e, BShr(n, 0 - e))

\* the digits printf's %.<d>f prints for x: the integer nearest to x * 10^d,
\* ties to even (the exact binary value is rounded), or "inf" / "nan"
Fmt(x, d) ==
  IF IsNaN(x) THEN "nan"
  ELSE IF IsInf(x) THEN "inf"
  ELSE FmtScaled(BMul(x.m, BPow10(d)), x.e)

\* (useconds_t) x for a finite x below 2^32: the fraction is discarded
ToUSeconds(x) == IF x.e >= 0 THEN BShl(x.m, x.e) ELSE BShr(x.m, 0 - x.e)

---------------------------------------------------------------------------
(* The constants of asim.c.                                                *)

GRAVITY  == Lit(981, 100)
\* 3.14159265358979323846
M_PI     == LitLong(3141592, 6535897, 9323846, 20)
D0_001   == Lit(1, 1000)
D0_02    == Lit(2, 100)
D2       == Lit(2, 1)
D64      == Lit(64, 1)
D2000    == Lit(2000, 1)
D1e6     == Lit(1000000, 1)

\* pow(x, 2): the square, correctly rounded
pow2(x) == fmul(x, x)

(* A line of stdout: the text of the printf format and, for the line of    *)
(* results, the digits printed for its four arguments.                     *)
TextLine(s) == [text |-> s, t |-> <<>>, h |-> <<>>, Q |-> <<>>, P |-> <<>>]

NoFlowNotice   == TextLine("Pump cannot overcome the head loss. No flow occurs.")
OverflowNotice == TextLine("Tank is full! Overflow occurs.")
Header1  == TextLine("Time(s)   Water Level(m)   Flow Rate(m3/s)   Pump Power(W)")
Header2  == TextLine("---------------------------------------------------------")
Starting == TextLine("Starting real-time tank filling simulation...")
Complete == TextLine("Simulation complete.")
ResultsFormat == "%.2f       %.4f          %.4f          %.2f"

---------------------------------------------------------------------------
(* The hydraulics functions.                                               *)

\* a variant of calculate_friction_factor: <= for <
calculate_friction_factor_le(reynolds_number) ==
  IF fle(reynolds_number, D2000)
  THEN fdiv(D64, reynolds_number)
  ELSE D0_02

calculate_friction_factor(reynolds_number) ==
  IF flt(reynolds_number, D2000)
  THEN fdiv(D64, reynolds_number)
  ELSE D0_02

\* Darcy-Weisbach, the return expression of calculate_head_loss
darcy_weisbach(pipe0, velocity, friction_factor) ==
  fdiv(fmul(fmul(friction_factor, fdiv(pipe0.length, pipe0.diameter)),
            pow2(velocity)),
       fmul(D2, GRAVITY))

\* a variant of head_loss_f: the velocity is kept in a local, not in the pipe
head_loss_f_local(pipe0, velocity, reynolds_number, friction_factor) ==
  [pipe |-> pipe0,
   reynolds_number |-> reynolds_number,
   friction_factor |-> friction_factor,
   ret |-> darcy_weisbach(pipe0, velocity, friction_factor)]

head_loss_f(pipe0, velocity, reynolds_number, friction_factor) ==
  [pipe |-> [pipe0 EXCEPT !.velocity = velocity],
   reynolds_number |-> reynolds_number,
   friction_factor |-> friction_factor,
   ret |-> darcy_weisbach(pipe0, velocity, friction_factor)]

head_loss_re(pipe0, velocity, reynolds_number) ==
  head_loss_f(pipe0, velocity, reynolds_number,
              calculate_friction_factor(reynolds_number))

head_loss_v(pipe0, velocity) ==
  head_loss_re(pipe0, velocity,
               fdiv(fmul(fmul(pipe0.density, velocity), pipe0.diameter), D0_001))

\* the pipe as calculate_head_loss leaves it, its locals, and the value it
\* returns
calculate_head_loss(pipe0, flow_rate) ==
  head_loss_v(pipe0,
              fdiv(flow_rate, fmul(M_PI, pow2(fdiv(pipe0.diameter, D2)))))

calculate_pump_power(pump0, pipe0) ==
  fmul(fmul(fmul(pipe0.density, GRAVITY), pump0.flow_rate), pump0.head)

\* a variant of inflow_level: = for +=
inflow_level_assign(tank0, pump0, time_step0) ==
  fmul(fdiv(pump0.flow_rate, fmul(M_PI, pow2(tank0.radius))), time_step0)

\* the level after the inflow of one time step, before the clamp
inflow_level(tank0, pump0, time_step0) ==
  fadd(tank0.water_level,
       fmul(fdiv(pump0.flow_rate, fmul(M_PI, pow2(tank0.radius))), time_step0))

\* whether update_tank takes its early return
no_flow(pump0, head_loss) == flt(pump0.head, head_loss)

\* a variant of overflows: >= for >
overflows_ge(level, tank0) == fge(level, tank0.height)

\* a variant of overflows: the clamp is missing
overflows_never(level, tank0) == FALSE

\* whether update_tank clamps the level
overflows(level, tank0) == fgt(level, tank0.height)

Locals(hl) ==
  [called |-> TRUE, head_loss |-> hl.ret,
   reynolds_number |-> hl.reynolds_number,
   friction_factor |-> hl.friction_factor]

\* update_tank past the pump check
update_level(tank0, pump0, hl, level) ==
  [tank |-> [tank0 EXCEPT !.water_level =
               IF overflows(level, tank0) THEN tank0.height ELSE level],
   pump |-> [pump0 EXCEPT !.power = calculate_pump_power(pump0, hl.pipe)],
   pipe |-> hl.pipe,
   lines |-> IF overflows(level, tank0) THEN <<OverflowNotice>> ELSE <<>>,
   loc |-> Locals(hl)]

\* a variant of update_checked: the notice is printed but the return is
\* missing
update_checked_noreturn(tank0, pump0, hl, time_step0) ==
  IF no_flow(pump0, hl.ret)
  THEN [update_level(tank0, pump0, hl, inflow_level(tank0, pump0, time_step0))
          EXCEPT !.lines = <<NoFlowNotice>> \o @]
  ELSE update_level(tank0, pump0, hl, inflow_level(tank0, pump0, time_step0))

\* update_tank from the pump check on
update_checked(tank0, pump0, hl, time_step0) ==
  IF no_flow(pump0, hl.ret)
  THEN [tank |-> tank0, pump |-> pump0, pipe |-> hl.pipe,
        lines |-> <<NoFlowNotice>>, loc |-> Locals(hl)]
  ELSE update_level(tank0, pump0, hl, inflow_level(tank0, pump0, time_step0))

\* the three records as update_tank leaves them, the lines it prints, and
\* its locals
update_tank(tank0, pump0, pipe0, time_step0) ==
  update_checked(tank0, pump0, calculate_head_loss(pipe0, pump0.flow_rate),
                 time_step0)

---------------------------------------------------------------------------
(* The state: main's three records and two timing parameters, the locals   *)
(* of simulate_system and of the last call of update_tank, the position in *)
(* main / simulate_system, the lines written to stdout and the arguments   *)
(* usleep was called with.                                                 *)

VARIABLES pump, pipe, tank, simulation_duration, time_step, current_time,
          loc, pc, out, slept

vars == <<pump, pipe, tank, simulation_duration, time_step, current_time,
          loc, pc, out, slept>>

\* the longest run, in seconds, of the runs with a one-second step
MaxDuration == 5

\* the flow rate at which the Reynolds number is exactly 2000
\* (0x1.496b7c53c5b03p-13), and the double just below it
QRe2000  == [c |-> "fin", m |-> <<23299, 2680, 23263, 164>>, e |-> -65]
QBelow   == [c |-> "fin", m |-> <<23298, 2680, 23263, 164>>, e |-> -65]
\* the level from which one step of main's inflow gives exactly 5.0
\* (0x1.3fcbd91d9f432p+2)
HEdge    == [c |-> "fin", m |-> <<29746, 9139, 29430, 159>>, e |-> -50]

\* main's initialisers
MainPump == [flow_rate |-> Lit(1, 100), head |-> Lit(10, 1), power |-> Zero]
MainPipe == [length |-> Lit(50, 1), diameter |-> Lit(1, 10),
             roughness |-> Lit(15, 1000), velocity |-> Zero,
             density |-> Lit(1000, 1)]
MainTank == [height |-> Lit(5, 1), radius |-> Lit(1, 1), water_level |-> Zero]
MainDuration == Lit(60, 1)
MainTimeStep == Lit(1, 1)

\* the parameters the runs are drawn from
FlowRates == {Zero, Lit(1, 100), Lit(7854, 100000000), QBelow, QRe2000}
Heads     == {Lit(10, 1), Lit(1, 100)}
Radii     == {Lit(1, 1), Lit(5, 100)}
Levels    == {Zero, HEdge, Lit(5, 1)}
\* <<time_step, simulation_duration>>
Timings   == {<<Lit(1, 1), Lit(k, 1)>> : k \in 0..MaxDuration}
             \cup {<<Lit(1, 10), Lit(8, 10)>>, <<Lit(1, 10), Lit(1, 1)>>,
                   <<Lit(5, 10), Lit(2, 1)>>, <<MainTimeStep, MainDuration>>}

NoLocals == [called |-> FALSE, head_loss |-> Zero, reynolds_number |-> Zero,
             friction_factor |-> Zero]

Init ==
  /\ pipe = MainPipe
  /\ \/ /\ \E q \in FlowRates, h \in Heads :
             pump = [flow_rate |-> q, head |-> h, power |-> Zero]
        /\ \E r \in Radii, l \in Levels :
             tank = [height |-> Lit(5, 1), radius |-> r, water_level |-> l]
        /\ time_step = Lit(1, 1)
        /\ simulation_duration = Lit(MaxDuration, 1)
     \/ /\ pump = MainPump
        /\ tank = MainTank
        /\ \E tm \in Timings : time_step = tm[1] /\ simulation_duration = tm[2]
  /\ current_time = Zero
  /\ loc = NoLocals
  /\ pc = "main"
  /\ out = <<>>
  /\ slept = <<>>

\* main: the first printf, then the call of simulate_system
MainStart ==
  /\ pc = "main"
  /\ out' = Append(out, Starting)
  /\ pc' = "simulate"
  /\ UNCHANGED <<pump, pipe, tank, simulation_duration, time_step,
                 current_time, loc, slept>>

\* simulate_system up to its loop
SimulateEnter ==
  /\ pc = "simulate"
  /\ current_time' = Zero
  /\ out' = out \o <<Header1, Header2>>
  /\ pc' = "while"
  /\ UNCHANGED <<pump, pipe, tank, simulation_duration, time_step, loc, slept>>

\* a variant of loop_condition: the loop also ends when the tank is full
loop_condition_until_full ==
  flt(current_time, simulation_duration) /\ flt(tank.water_level, tank.height)

\* a variant of loop_condition: <= for <
loop_condition_le == fle(current_time, simulation_duration)

\* the condition of the while loop
loop_condition == flt(current_time, simulation_duration)

\* while (current_time < simulation_duration): the condition holds
LoopEnter ==
  /\ pc = "while"
  /\ loop_condition
  /\ pc' = "update"
  /\ UNCHANGED <<pump, pipe, tank, simulation_duration, time_step,
                 current_time, loc, out, slept>>

\* the condition fails: simulate_system returns
LoopExit ==
  /\ pc = "while"
  /\ ~loop_condition
  /\ pc' = "return"
  /\ UNCHANGED <<pump, pipe, tank, simulation_duration, time_step,
                 current_time, loc, out, slept>>

\* the effect of a call of update_tank with the outcome u
Updated(u) ==
  /\ tank' = u.tank
  /\ pump' = u.pump
  /\ pipe' = u.pipe
  /\ loc' = u.loc
  /\ out' = out \o u.lines

\* update_tank(tank, pump, pipe, time_step)
UpdateTank ==
  /\ pc = "update"
  /\ Updated(update_tank(tank, pump, pipe, time_step))
  /\ pc' = "print"
  /\ UNCHANGED <<simulation_duration, time_step, current_time, slept>>

\* the line printf("%.2f       %.4f          %.4f          %.2f\n", ...) prints
ObservationLine(t, level, flow, power) ==
  [text |-> ResultsFormat,
   t |-> Fmt(t, 2), h |-> Fmt(level, 4), Q |-> Fmt(flow, 4), P |-> Fmt(power, 2)]

\* a variant of PrintResults: the time printed is that of the end of the tick
PrintResults_end_time ==
  /\ pc = "print"
  /\ out' = Append(out, ObservationLine(fadd(current_time, time_step),
                                        tank.water_level, pump.flow_rate,
                                        pump.power))
  /\ pc' = "increment"
  /\ UNCHANGED <<pump, pipe, tank, simulation_duration, time_step,
                 current_time, loc, slept>>

PrintResults ==
  /\ pc = "print"
  /\ out' = Append(out, ObservationLine(current_time, tank.water_level,
                                        pump.flow_rate, pump.power))
  /\ pc' = "increment"
  /\ UNCHANGED <<pump, pipe, tank, simulation_duration, time_step,
                 current_time, loc, slept>>

\* current_time += time_step
IncrementTime ==
  /\ pc = "increment"
  /\ current_time' = fadd(current_time, time_step)
  /\ pc' = "usleep"
  /\ UNCHANGED <<pump, pipe, tank, simulation_duration, time_step,
                 loc, out, slept>>

\* the argument of usleep(time_step * 1e6)
usleep_arg(time_step0) == ToUSeconds(fmul(time_step0, D1e6))

RealTimeDelay ==
  /\ pc = "usleep"
  /\ slept' = Append(slept, usleep_arg(time_step))
  /\ pc' = "while"
  /\ UNCHANGED <<pump, pipe, tank, simulation_duration, time_step,
                 current_time, loc, out>>

\* main after simulate_system returned
MainFinish ==
  /\ pc = "return"
  /\ out' = Append(out, Complete)
  /\ pc' = "done"
  /\ UNCHANGED <<pump, pipe, tank, simulation_duration, time_step,
                 current_time, loc, slept>>

Next ==
  \/ MainStart
  \/ SimulateEnter
  \/ LoopEnter
  \/ LoopExit
  \/ UpdateTank
  \/ PrintResults
  \/ IncrementTime
  \/ RealTimeDelay
  \/ MainFinish

Spec == Init /\ [][Next]_vars

---------------------------------------------------------------------------
(* Properties.                                                             *)

IsResults(l) == l.text = ResultsFormat
IsNotice(l)  == l = NoFlowNotice \/ l = OverflowNotice

Last(q) == q[Len(q)]

\* the lines of results printed so far
ResultsCount == Cardinality({i \in 1..Len(out) : IsResults(out[i])})

\* C1: in every state of a run that starts with 0 <= h <= H_t, and so after
\* every tick, 0 <= tank.water_level <= tank.height; and the level printed
\* on every line of results is at most the tank height printed the same way.
C1_LevelWithinTank ==
  /\ fle(Zero, tank.water_level)
  /\ fle(tank.water_level, tank.height)
  /\ \A i \in 1..Len(out) :
       IsResults(out[i]) => BCmp(out[i].h, Fmt(tank.height, 4)) <= 0

\* C1 witness: a tick has clamped the level and printed it
C1_Witness ==
  /\ pc = "increment"
  /\ Len(out) >= 2
  /\ out[Len(out) - 1] = OverflowNotice
  /\ tank.water_level = tank.height
  /\ Last(out).h = Fmt(tank.height, 4)

\* C2: a call of update_tank in which pump.head < head_loss prints the
\* no-flow notice and nothing else and leaves tank.water_level and pump.power
\* as they were; and in a run whose calls are of this kind the power is still
\* the initial 0 and every level printed is the one the tank still has.
C2_NoFlowTick ==
  /\ [][(pc = "update" /\ flt(pump.head, loc'.head_loss))
          => /\ out' = Append(out, NoFlowNotice)
             /\ tank'.water_level = tank.water_level
             /\ pump'.power = pump.power]_vars
  /\ []((loc.called /\ flt(pump.head, loc.head_loss))
          => /\ pump.power = Zero
             /\ \A i \in 1..Len(out) :
                  IsResults(out[i]) => /\ out[i].h = Fmt(tank.water_level, 4)
                                       /\ out[i].P = Fmt(Zero, 2))

\* C2 witness: the second call of a run has just returned early
C2_Witness ==
  /\ pc = "print"
  /\ ResultsCount >= 1
  /\ loc.called
  /\ flt(pump.head, loc.head_loss)
  /\ Last(out) = NoFlowNotice

\* the level plus the inflow of one step at the full nominal flow rate:
\* h + (Q / (pi * r^2)) * dt
C3_Sum ==
  fadd(tank.water_level,
       fmul(fdiv(pump.flow_rate, fmul(M_PI, fmul(tank.radius, tank.radius))),
            time_step))

\* C3: a call of update_tank in which pump.head >= head_loss leaves the
\* level at min(C3_Sum, tank.height), and prints the overflow notice, and
\* nothing else, exactly when C3_Sum > tank.height.
C3_FlowTick ==
  [][(pc = "update" /\ fge(pump.head, loc'.head_loss))
       => /\ tank'.water_level =
               IF fgt(C3_Sum, tank.height) THEN tank.height ELSE C3_Sum
          /\ out' = IF fgt(C3_Sum, tank.height)
                    THEN Append(out, OverflowNotice) ELSE out]_vars

\* C3 witness: the first call of a run has brought the level to exactly the
\* tank height with no notice printed (the sum was equal to the height)
C3_Witness ==
  /\ pc = "print"
  /\ ResultsCount = 0
  /\ fge(pump.head, loc.head_loss)
  /\ tank.water_level = tank.height
  /\ ~IsNotice(Last(out))

\* C4: no step lowers tank.water_level.
C4_NonDecreasing == [][fle(tank.water_level, tank'.water_level)]_vars

\* C4 witness: a call of update_tank has returned with a level that prints
\* higher than the level on the last line of results
C4_Witness ==
  /\ pc = "print"
  /\ IsResults(Last(out))
  /\ BCmp(Last(out).h, Fmt(tank.water_level, 4)) < 0

\* C5: once tank.water_level = tank.height every step leaves it so, and the
\* loop is left only with current_time >= simulation_duration.
C5_PinnedAtHeight ==
  /\ [][tank.water_level = tank.height
          => tank'.water_level = tank'.height]_vars
  /\ [](pc \in {"return", "done"} => fge(current_time, simulation_duration))

\* C5 witness: the overflow notice has been printed on two ticks and the
\* loop goes on to the next call of update_tank
C5_Witness ==
  /\ pc = "update"
  /\ tank.water_level = tank.height
  /\ Cardinality({i \in 1..Len(out) : out[i] = OverflowNotice}) >= 2

\* m1 * 2^e1 = m2 * 2^e2
ExactEq(m1, e1, m2, e2) ==
  IF e1 >= e2 THEN BShl(m1, e1 - e2) = m2 ELSE m1 = BShl(m2, e2 - e1)

\* the double x is exactly k times the double y (k below 2^15)
IsMultipleOf(x, y, k) == ExactEq(x.m, x.e, BMulLimb(y.m, k), y.e)

RoundsTo(r, m, e) == IsFinite(r) /\ ExactEq(r.m, r.e, m, e)

\* k times the double y is itself a double
IsExactDouble(y, k) ==
  RoundsTo(RoundPack(BMulLimb(y.m, k), y.e, FALSE), BMulLimb(y.m, k), y.e)

\* the tick counts considered
TickCounts == 0..64

\* C6 as claimed: when simulation_duration is k times time_step, a finished
\* run has printed exactly k lines of results and called usleep exactly k
\* times, each time with time_step in microseconds.
C6_Original ==
  pc = "done" =>
    \A k \in TickCounts :
      IsMultipleOf(simulation_duration, time_step, k)
        => /\ ResultsCount = k
           /\ Len(slept) = k
           /\ \A i \in 1..Len(slept) : slept[i] = ToUSeconds(fmul(time_step, D1e6))

\* C6 as amended: a finished run has printed as many lines of results as it
\* has called usleep, each call with time_step in microseconds, and has
\* current_time >= simulation_duration; the count is k when
\* simulation_duration is k times time_step and every multiple of time_step
\* up to the k-th is a double (no addition of the loop is rounded).
C6_Amended ==
  pc = "done" =>
    /\ ResultsCount = Len(slept)
    /\ \A i \in 1..Len(slept) : slept[i] = ToUSeconds(fmul(time_step, D1e6))
    /\ fge(current_time, simulation_duration)
    /\ \A k \in TickCounts :
         (/\ IsMultipleOf(simulation_duration, time_step, k)
          /\ \A i \in 1..k : IsExactDouble(time_step, i))
           => ResultsCount = k

\* C6 witness: the run of five one-second ticks has finished with five lines
\* of results and five calls of usleep
C6_Witness ==
  /\ pc = "done"
  /\ time_step = Lit(1, 1)
  /\ simulation_duration = Lit(5, 1)
  /\ ResultsCount = 5
  /\ Len(slept) = 5

\* the order of the positions in main and simulate_system
PcOrder ==
  {<<"main", "simulate">>, <<"simulate", "while">>, <<"while", "update">>,
   <<"update", "print">>, <<"print", "increment">>, <<"increment", "usleep">>,
   <<"usleep", "while">>, <<"while", "return">>, <<"return", "done">>}

\* C7: in every tick update_tank runs first and its notice is on stdout
\* directly before the line of results; that line shows current_time as it
\* was at the start of the tick with the level and power update_tank left;
\* then current_time becomes current_time + time_step; then usleep is
\* called.  The first line, then the two header lines, precede everything the
\* ticks print, and the closing line is the last one.
C7_TickOrder ==
  /\ [](/\ (pc = "main") = (out = <<>>)
        /\ pc # "main" => out[1] = Starting
        /\ pc \notin {"main", "simulate"}
             => Len(out) >= 3 /\ out[2] = Header1 /\ out[3] = Header2
        /\ \A i \in 1..Len(out) :
             /\ (IsResults(out[i]) \/ IsNotice(out[i])) => i > 3
             /\ out[i] = Complete => i = Len(out) /\ pc = "done"
             /\ IsNotice(out[i])
                  => IF i < Len(out) THEN IsResults(out[i + 1]) ELSE pc = "print"
        /\ pc = "done" => Last(out) = Complete
        /\ ResultsCount =
             Len(slept) + (IF pc \in {"increment", "usleep"} THEN 1 ELSE 0)
        /\ pc = "increment"
             => Last(out) = ObservationLine(current_time, tank.water_level,
                                            pump.flow_rate, pump.power))
  /\ [][/\ pc' # pc => <<pc, pc'>> \in PcOrder
        /\ pc = "update" => loc'.called /\ UNCHANGED <<current_time, slept>>
        /\ pc = "print" => UNCHANGED <<tank, pump, current_time, slept>>
        /\ pc = "increment"
             => /\ current_time' = fadd(current_time, time_step)
                /\ UNCHANGED <<out, slept>>
        /\ pc = "usleep"
             => /\ Len(slept') = Len(slept) + 1
                /\ UNCHANGED <<out, current_time>>]_vars

\* C7 witness: in the second tick or later, a notice and then the line of
\* results have been printed, the time is advanced and usleep is next
C7_Witness ==
  /\ pc = "usleep"
  /\ ResultsCount >= 2
  /\ IsNotice(out[Len(out) - 1])
  /\ IsResults(Last(out))

\* C8 as claimed: with a flow rate of zero no division by zero takes place
\* (the friction factor is finite) and the head loss is 0.
C8_ZeroFlowZeroLoss ==
  (loc.called /\ IsZero(pump.flow_rate))
    => IsFinite(loc.friction_factor) /\ loc.head_loss = Zero

\* the velocity Q / A for the pump's flow rate and the pipe's cross-section
C9_Velocity ==
  fdiv(pump.flow_rate, fmul(M_PI, pow2(fdiv(pipe.diameter, D2))))

\* C9: no step changes pump.flow_rate, pump.head, the pipe's length,
\* diameter, roughness and density or the tank's height and radius; a call
\* of update_tank sets pipe.velocity to Q / A, early return or not, and
\* prints at most two lines; no other step changes the three records.
C9_Frame ==
  [][/\ pump'.flow_rate = pump.flow_rate
     /\ pump'.head = pump.head
     /\ pipe'.length = pipe.length
     /\ pipe'.diameter = pipe.diameter
     /\ pipe'.roughness = pipe.roughness
     /\ pipe'.density = pipe.density
     /\ tank'.height = tank.height
     /\ tank'.radius = tank.radius
     /\ pc = "update"
          => pipe'.velocity = C9_Velocity /\ Len(out') <= Len(out) + 2
     /\ pc # "update" => UNCHANGED <<pump, pipe, tank>>]_vars

\* C9 witness: the first call of a run returned early and the velocity is
\* set all the same
C9_Witness ==
  /\ pc = "print"
  /\ ResultsCount = 0
  /\ Last(out) = NoFlowNotice
  /\ ~IsZero(pipe.velocity)
  /\ pipe.velocity = C9_Velocity

\* C10: after every call of update_tank the Reynolds number is
\* rho * v * D / 0.001 for the velocity v = Q / (pi * (D/2)^2), the friction
\* factor is 64 / Re when Re < 2000 and 0.02 when Re >= 2000, and the head
\* loss is f * (L / D) * v^2 / (2 * g).
C10_Kernel ==
  loc.called =>
    /\ pipe.velocity = C9_Velocity
    /\ loc.reynolds_number =
         fdiv(fmul(fmul(pipe.density, pipe.velocity), pipe.diameter), D0_001)
    /\ flt(loc.reynolds_number, D2000)
         => loc.friction_factor = fdiv(D64, loc.reynolds_number)
    /\ fge(loc.reynolds_number, D2000) => loc.friction_factor = D0_02
    /\ loc.head_loss =
         fdiv(fmul(fmul(loc.friction_factor, fdiv(pipe.length, pipe.diameter)),
                   fmul(pipe.velocity, pipe.velocity)),
              fmul(D2, GRAVITY))

\* C10 witness: a call at a Reynolds number of exactly 2000 has taken the
\* turbulent branch
C10_Witness ==
  /\ loc.called
  /\ loc.reynolds_number = D2000
  /\ loc.friction_factor = D0_02

====
